---- MODULE Spec2Model ----
(***************************************************************************)
(* Model of the postal-zone geometry pipeline (clip, gap fill, dissolve,   *)
(* label) of the norgeskart repository.                                    *)
(*                                                                         *)
(* Geometry is modelled on a strip of unit cells.  The strip of a run lies  *)
(* either along a parallel, cell c being the rectangle [c, c+1] x [0, 1],  *)
(* or along a meridian, cell c being [0, 1] x [c, c+1]: the boxes of the   *)
(* geometries then differ in x or in y, and in both layouts the centroids  *)
(* lie on one line along which the distance between two of them grows with *)
(* the difference of their positions.  A well-formed geometry is a         *)
(* non-empty set of cells (a Polygon when the cells are consecutive, a     *)
(* MultiPolygon otherwise).  turf's set operations are the set operations  *)
(* on cells; a malformed geometry (unknown type, no coordinates) makes     *)
(* every turf computation throw; an invalid geometry (a self-intersecting  *)
(* ring) covers cells and has a bbox, an area and a centroid, while union, *)
(* intersect and difference throw on it; a degenerate geometry (a sliver)  *)
(* can be intersected with a well-formed one, the result being degenerate  *)
(* again, while union and difference throw on it; a null geometry makes    *)
(* union, intersect, difference, area and centroid throw while bbox        *)
(* returns the empty box.                                                  *)
(***************************************************************************)
EXTENDS Integers, Sequences, FiniteSets

\* ------------------------------------------------------------------ bounds

\* Longest postal feature list read from the postal file.
MaxFeatures == 2

\* Longest feature list of a mask file.
MaxMaskFeatures == 2

\* The strip of cells.
Cells == 0 .. 3

\* The line the strip of a run lies along.
Axes == {"parallel", "meridian"}

VARIABLES
  axis                \* the line the geometries of the files lie along

\* ------------------------------------------------------------ data model

NoCode == ""

OkGeom(cells) == [kind |-> "ok", cells |-> cells]
NullGeom == [kind |-> "null", cells |-> {}]
BadGeom == [kind |-> "bad", cells |-> {}]
InvalidGeom(cells) == [kind |-> "invalid", cells |-> cells]
DegenerateGeom(cells) == [kind |-> "degenerate", cells |-> cells]
\* The geometry has coordinates turf can read.
HasRegion(g) == g.kind = "ok" \/ g.kind = "invalid" \/ g.kind = "degenerate"
\* JavaScript null in the place of a feature (merged = null, union of nothing).
NoFeature == [kind |-> "none", cells |-> {}]

IsInterval(S) == S # {} /\ \A a \in S, b \in S : \A c \in Cells : (a <= c /\ c <= b) => c \in S

Feature(code, geom) == [code |-> code, geom |-> geom]

\* ---------------------------------------------------------- turf adapter

Throw(v) == [threw |-> TRUE, value |-> v]
Return(v) == [threw |-> FALSE, value |-> v]

TurfUnion(a, b) ==
  IF a.kind # "ok" \/ b.kind # "ok" THEN Throw(NoFeature)
  ELSE Return(OkGeom(a.cells \cup b.cells))

TurfIntersect(a, b) ==
  IF a.kind = "degenerate" /\ b.kind = "ok"
  THEN (IF a.cells \cap b.cells = {} THEN Return(NoFeature)
        ELSE Return(DegenerateGeom(a.cells \cap b.cells)))
  ELSE IF a.kind # "ok" \/ b.kind # "ok" THEN Throw(NoFeature)
  ELSE IF a.cells \cap b.cells = {} THEN Return(NoFeature)
  ELSE Return(OkGeom(a.cells \cap b.cells))

TurfDifference(a, b) ==
  IF a.kind # "ok" \/ b.kind # "ok" THEN Throw(NoFeature)
  ELSE IF a.cells \ b.cells = {} THEN Return(NoFeature)
  ELSE Return(OkGeom(a.cells \ b.cells))

MinCell(S) == CHOOSE x \in S : \A y \in S : x <= y
MaxCell(S) == CHOOSE x \in S : \A y \in S : y <= x

\* The box <<minX, minY, maxX, maxY>> of a geometry: along the strip from its
\* first cell to the end of its last, across the strip from 0 to 1. The empty
\* box of a null geometry has its minima at +Infinity and its maxima at
\* -Infinity, rendered beyond the strip.
TurfBbox(g) ==
  IF g.kind = "bad" THEN Throw(<<0, 0, 0, 0>>)
  ELSE IF HasRegion(g)
  THEN (IF axis = "parallel"
        THEN Return(<<MinCell(g.cells), 0, MaxCell(g.cells) + 1, 1>>)
        ELSE Return(<<0, MinCell(g.cells), 1, MaxCell(g.cells) + 1>>))
  ELSE Return(<<Cardinality(Cells) + 1, Cardinality(Cells) + 1, 0 - 1, 0 - 1>>)

TurfArea(g) ==
  IF ~HasRegion(g) THEN Throw(0) ELSE Return(Cardinality(g.cells))

RECURSIVE SortAsc(_)
SortAsc(S) ==
  IF S = {} THEN <<>>
  ELSE LET m == MinCell(S) IN <<m>> \o SortAsc(S \ {m})

RunStarts(cells) == {c \in cells : (c - 1) \notin cells}
RunAt(cells, s) == {c \in cells : c >= s /\ \A d \in s .. c : d \in cells}

\* The connected parts of a region, west to east.
Components(cells) ==
  LET st == SortAsc(RunStarts(cells))
  IN [i \in 1 .. Len(st) |-> RunAt(cells, st[i])]

RECURSIVE SumSeq(_)
SumSeq(s) == IF s = <<>> THEN 0 ELSE Head(s) + SumSeq(Tail(s))

\* turf.centroid is the mean of the vertices: every part is a rectangle whose
\* four vertices average to its centre (lo + hi + 1) / 2, so the centroid is
\* num / den with num the sum of (lo + hi + 1) and den twice the part count.
TurfCentroid(g) ==
  IF ~HasRegion(g) THEN Throw([num |-> 0, den |-> 1])
  ELSE LET parts == Components(g.cells)
       IN Return([num |-> SumSeq([i \in 1 .. Len(parts) |->
                                   MinCell(parts[i]) + MaxCell(parts[i]) + 1]),
                  den |-> 2 * Len(parts)])

Abs(x) == IF x < 0 THEN 0 - x ELSE x

\* Great-circle distance between two points of one parallel, or of one
\* meridian, grows with the difference of their positions along it; kept as
\* an exact fraction.
TurfDistance(p, q) ==
  [num |-> Abs(p.num * q.den - q.num * p.den), den |-> p.den * q.den]

DistLess(d, e) == d.num * e.den < e.num * d.den

\* ------------------------------------------------------------ unionMask

\* One iteration of the fold: the first feature becomes the accumulator as it
\* is; a union that throws is skipped and the accumulator kept.
UnionStep(merged, g) ==
  IF merged.kind = "none" THEN g
  ELSE LET u == TurfUnion(merged, g)
       IN IF u.threw THEN merged ELSE u.value

RECURSIVE UnionFrom(_, _, _)
UnionFrom(features, i, merged) ==
  IF i > Len(features) THEN merged
  ELSE UnionFrom(features, i + 1, UnionStep(merged, features[i].geom))

\* The geometry of the feature unionMask returns, NoFeature for null.
UnionMask(features) == UnionFrom(features, 1, NoFeature)

\* ------------------------------------------------------ clipPostalCodes

\* The y sides compared with the wrong sides of the mask's box: not what the
\* prefilter does.
BboxOverlapsWrongSides(featureBbox, landBbox) ==
  /\ featureBbox[1] <= landBbox[3]
  /\ featureBbox[3] >= landBbox[1]
  /\ featureBbox[2] <= landBbox[2]
  /\ featureBbox[4] >= landBbox[4]

\* featureBbox[0] <= landBbox[2] && featureBbox[2] >= landBbox[0] &&
\* featureBbox[1] <= landBbox[3] && featureBbox[3] >= landBbox[1], the
\* indices counted from 1.
BboxOverlaps(featureBbox, landBbox) ==
  /\ featureBbox[1] <= landBbox[3]
  /\ featureBbox[3] >= landBbox[1]
  /\ featureBbox[2] <= landBbox[4]
  /\ featureBbox[4] >= landBbox[2]

\* The feature kept as it is when its bbox throws: not what the clipper does.
ClipOneKeepsThrown(feature, landMask, landBbox) ==
  IF feature.geom.kind = "null" THEN <<>>
  ELSE LET fb == TurfBbox(feature.geom)
       IN IF fb.threw THEN <<feature>>
          ELSE IF ~BboxOverlaps(fb.value, landBbox) THEN <<>>
          ELSE LET x == TurfIntersect(feature.geom, landMask)
               IN IF x.threw \/ x.value.kind = "none" THEN <<>>
                  ELSE <<Feature(feature.code, x.value)>>

\* What the loop body does with one feature: <<>> when the feature is skipped
\* or dropped, the clipped feature otherwise.
ClipOne(feature, landMask, landBbox) ==
  IF feature.geom.kind = "null" THEN <<>>
  ELSE LET fb == TurfBbox(feature.geom)
       IN IF fb.threw THEN <<>>
          ELSE IF ~BboxOverlaps(fb.value, landBbox) THEN <<>>
          ELSE LET x == TurfIntersect(feature.geom, landMask)
               IN IF x.threw \/ x.value.kind = "none" THEN <<>>
                  ELSE <<Feature(feature.code, x.value)>>

\* Results pushed at the front: not what the clipper does.
RECURSIVE ClipFromReversed(_, _, _, _)
ClipFromReversed(features, i, landMask, landBbox) ==
  IF i > Len(features) THEN <<>>
  ELSE ClipFromReversed(features, i + 1, landMask, landBbox)
         \o ClipOne(features[i], landMask, landBbox)

RECURSIVE ClipFrom(_, _, _, _)
ClipFrom(features, i, landMask, landBbox) ==
  IF i > Len(features) THEN <<>>
  ELSE ClipOne(features[i], landMask, landBbox)
         \o ClipFrom(features, i + 1, landMask, landBbox)

\* turf.bbox(landMask) runs outside every try block: its failure escapes.
ClipPostalCodes(features, landMask) ==
  LET lb == TurfBbox(landMask)
  IN IF lb.threw THEN Throw(<<>>)
     ELSE Return(ClipFrom(features, 1, landMask, lb.value))

\* ------------------------------------------------------ buildGapFeatures

\* The difference taken the wrong way round: not what buildGapFeatures does.
BuildGapFeaturesReversed(landMask, unionedPostal) ==
  IF unionedPostal.kind = "none" THEN <<>>
  ELSE LET diff == TurfDifference(unionedPostal, landMask)
       IN IF diff.threw THEN <<>>
          ELSE IF diff.value.kind = "none" THEN <<>>
          ELSE LET parts == Components(diff.value.cells)
               IN [i \in 1 .. Len(parts) |-> OkGeom(parts[i])]

\* The whole mask returned when the difference throws: not what
\* buildGapFeatures does.
BuildGapFeaturesMaskOnThrow(landMask, unionedPostal) ==
  IF unionedPostal.kind = "none" THEN <<>>
  ELSE LET diff == TurfDifference(landMask, unionedPostal)
       IN IF diff.threw THEN <<landMask>>
          ELSE IF diff.value.kind = "none" THEN <<>>
          ELSE LET parts == Components(diff.value.cells)
               IN [i \in 1 .. Len(parts) |-> OkGeom(parts[i])]

BuildGapFeatures(landMask, unionedPostal) ==
  IF unionedPostal.kind = "none" THEN <<>>
  ELSE LET diff == TurfDifference(landMask, unionedPostal)
       IN IF diff.threw THEN <<>>
          ELSE IF diff.value.kind = "none" THEN <<>>
          ELSE LET parts == Components(diff.value.cells)
               IN [i \in 1 .. Len(parts) |-> OkGeom(parts[i])]

\* --------------------------------------------------- assignGapsToNearest

\* GAP_AREA_MAX is a finite number of cell areas or Infinity.
Infinity == [inf |-> TRUE, v |-> 0]
Finite(n) == [inf |-> FALSE, v |-> n]

\* The comparison inverted: not what assignGapsToNearest does.
AreaBelow(area, max) == ~max.inf /\ area < max.v

\* area > GAP_AREA_MAX
AreaExceeds(area, max) == ~max.inf /\ area > max.v

\* <= in the place of <: not what assignGapsToNearest does.
CloserOrEqual(distance, bestDistance) ==
  distance.num * bestDistance.den <= bestDistance.num * distance.den

\* distance < best.distance
Closer(distance, bestDistance) == DistLess(distance, bestDistance)

\* The scan over the centroid cache; best is the index of the best entry so
\* far, 0 for null.
RECURSIVE ScanBest(_, _, _, _)
ScanBest(cache, gapCenter, i, best) ==
  IF i > Len(cache) THEN best
  ELSE ScanBest(cache, gapCenter, i + 1,
                IF best = 0
                   \/ Closer(TurfDistance(gapCenter, cache[i]),
                             TurfDistance(gapCenter, cache[best]))
                THEN i ELSE best)

\* The first entry taken without any comparison: not what the scan does.
BestIndexFirst(cache, gapCenter) == IF Len(cache) = 0 THEN 0 ELSE 1

BestIndex(cache, gapCenter) == ScanBest(cache, gapCenter, 1, 0)

\* The addition keeps a code of its own: not what assignGapsToNearest does.
AssignOneOwnCode(features, cache, gap, max) ==
  IF AreaExceeds(TurfArea(gap).value, max) THEN <<>>
  ELSE LET best == BestIndex(cache, TurfCentroid(gap).value)
       IN IF best = 0 THEN <<>>
          ELSE <<Feature("gap", gap)>>

\* The forEach body: <<>> when the gap is too large or has no candidate.
AssignOne(features, cache, gap, max) ==
  IF AreaExceeds(TurfArea(gap).value, max) THEN <<>>
  ELSE LET best == BestIndex(cache, TurfCentroid(gap).value)
       IN IF best = 0 THEN <<>>
          ELSE <<Feature(features[best].code, gap)>>

RECURSIVE AssignFrom(_, _, _, _, _)
AssignFrom(features, cache, gaps, i, max) ==
  IF i > Len(gaps) THEN <<>>
  ELSE AssignOne(features, cache, gaps[i], max)
         \o AssignFrom(features, cache, gaps, i + 1, max)

\* No turf call of this function is inside a try block: a centroid or area
\* that throws escapes to run().
AssignGapsToNearest(features, gaps, max) ==
  IF gaps = <<>> THEN Return(<<>>)
  ELSE IF \E i \in 1 .. Len(features) : TurfCentroid(features[i].geom).threw
       THEN Throw(<<>>)
  ELSE IF \E j \in 1 .. Len(gaps) :
            TurfArea(gaps[j]).threw
            \/ (~AreaExceeds(TurfArea(gaps[j]).value, max) /\ TurfCentroid(gaps[j]).threw)
       THEN Throw(<<>>)
  ELSE LET cache == [i \in 1 .. Len(features) |-> TurfCentroid(features[i].geom).value]
       IN Return(AssignFrom(features, cache, gaps, 1, max))

\* -------------------------------------------------- dissolveByPostnummer

RECURSIVE GroupKeysFrom(_, _, _)
GroupKeysFrom(features, i, keys) ==
  IF i > Len(features) THEN keys
  ELSE LET c == features[i].code
       IN GroupKeysFrom(features, i + 1,
                        IF c = NoCode \/ \E k \in 1 .. Len(keys) : keys[k] = c
                        THEN keys ELSE Append(keys, c))

\* One group per feature, no look-up of the key: not what the grouping does.
GroupKeysNoDedup(features) ==
  LET coded == SelectSeq(features, LAMBDA f : f.code # NoCode)
  IN [i \in 1 .. Len(coded) |-> coded[i].code]

\* The keys in the reverse of insertion order: not what the Map yields.
GroupKeysNewestFirst(features) ==
  LET keys == GroupKeysFrom(features, 1, <<>>)
  IN [i \in 1 .. Len(keys) |-> keys[Len(keys) + 1 - i]]

\* The keys of the grouping Map, in insertion order.
GroupKeys(features) == GroupKeysFrom(features, 1, <<>>)

SameCode(c, f) == f.code = c

Group(features, c) == SelectSeq(features, LAMBDA f : SameCode(c, f))

\* The fold over one group, as in unionMask.
MergeGroup(group) == UnionFrom(group, 1, NoFeature)

\* Without the check of merged.geometry: not what the dissolver does.
DissolveOneUnchecked(features, c) ==
  LET merged == MergeGroup(Group(features, c))
  IN IF merged.kind = "none" THEN <<>>
     ELSE <<Feature(c, merged)>>

\* The merged feature emitted without its code: not what the dissolver does.
DissolveOneDropsCode(features, c) ==
  LET merged == MergeGroup(Group(features, c))
  IN IF merged.kind = "none" \/ merged.kind = "null" THEN <<>>
     ELSE <<Feature(NoCode, merged)>>

DissolveOne(features, c) ==
  LET merged == MergeGroup(Group(features, c))
  IN IF merged.kind = "none" \/ merged.kind = "null" THEN <<>>
     ELSE <<Feature(c, merged)>>

RECURSIVE DissolveFrom(_, _, _)
DissolveFrom(features, keys, k) ==
  IF k > Len(keys) THEN <<>>
  ELSE DissolveOne(features, keys[k]) \o DissolveFrom(features, keys, k + 1)

DissolveByPostnummer(features) == DissolveFrom(features, GroupKeys(features), 1)

\* ------------------------------------------------------ buildLabelPoints

\* The code read from the wrong place: not what buildLabelPoints does.
LabelOneNoCode(feature) ==
  LET c == TurfCentroid(feature.geom)
  IN IF c.threw THEN <<>>
     ELSE <<[code |-> NoCode, point |-> c.value]>>

LabelOne(feature) ==
  LET c == TurfCentroid(feature.geom)
  IN IF c.threw THEN <<>>
     ELSE <<[code |-> feature.code, point |-> c.value]>>

RECURSIVE LabelsFrom(_, _)
LabelsFrom(dissolved, i) ==
  IF i > Len(dissolved) THEN <<>>
  ELSE LabelOne(dissolved[i]) \o LabelsFrom(dissolved, i + 1)

BuildLabelPoints(dissolved) == LabelsFrom(dissolved, 1)

\* ------------------------------------------------------------- run()

VARIABLES
  CLIP_MODE,          \* process.env.CLIP_MODE || 'coast'
  MASK_PATH,          \* process.env.NORWAY_MASK_PATH, "" when unset
  BORDER_MASK_PATH,   \* process.env.BORDER_MASK_PATH, "" when unset
  GAP_AREA_MAX,       \* Infinity or Finite(n)
  pc,                 \* where the script is
  postalData,         \* the parsed postal file
  maskPath,           \* the mask file run() read, "" when none
  landMask,           \* the unified mask (landMask / borderMask), NoFeature before
  clipped,            \* clipPostalCodes' features (coast, border)
  gaps,               \* buildGapFeatures' polygons
  additions,          \* assignGapsToNearest's features
  output,             \* the working set, written as output (1)
  dissolved,          \* output (2)
  labels,             \* output (3)
  written,            \* the outputs written so far, in order
  exitCode,           \* -1 while running, 0 or 1 after
  failure             \* what aborted the run, "" when nothing did

vars == <<CLIP_MODE, MASK_PATH, BORDER_MASK_PATH, GAP_AREA_MAX, axis, pc, postalData,
          maskPath, landMask, clipped, gaps, additions, output, dissolved,
          labels, written, exitCode, failure>>

config == <<CLIP_MODE, MASK_PATH, BORDER_MASK_PATH, GAP_AREA_MAX>>

\* The other programs of the repository: the map client, the store scraper's
\* worker pool and requestOverpass. Each has a specification of its own below;
\* while one program runs the others stay as they are.
VARIABLES
  validPostnummerSet,     \* validPostnummerSetRef.current
  postalSource,           \* the raw postnummer of the features of the map's source
  postalLoaded,           \* the postal data is loaded and the click handler set
  highlightedPostalcodes, \* the committed state of useState<Set<string>>
  importSummary,          \* the committed import summary, NoSummary for null
  pendingUpdates,         \* updates of highlightedPostalcodes queued for the render
  mergeInserted,          \* codes the latest merge's updater inserted, -1 before it ran
  summaryOfMerge,         \* importSummary was set by that merge
  CONCURRENCY,            \* Number(process.env.COOP_CONCURRENCY || 6)
  tasks,                  \* the store pages, each with what its processing meets
  index,                  \* let index
  inFlight,               \* let inFlight
  workerPc,               \* where each worker of the pool is
  workerTask,             \* the task each worker holds, 0 for none
  storeFeatures,          \* const features: the tasks whose feature was pushed, in order
  taken,                  \* <<task, worker>> for every task taken, in order
  endpoint,               \* position in OVERPASS_ENDPOINTS
  attempt,                \* let attempt
  requests,               \* <<endpoint, attempt>> of every request made, in order
  overpassResult          \* "running", "returned" or "threw"

clientVars == <<validPostnummerSet, postalSource, postalLoaded, highlightedPostalcodes,
                importSummary, pendingUpdates, mergeInserted, summaryOfMerge>>

poolVars == <<CONCURRENCY, tasks, index, inFlight, workerPc, workerTask,
              storeFeatures, taken>>

overpassVars == <<endpoint, attempt, requests, overpassResult>>

NoSummary == [source |-> "null", added |-> 0, invalid |-> 0, total |-> 0]

\* The map client before its postal data is loaded.
ClientStart ==
  /\ validPostnummerSet = {}
  /\ postalSource = <<>>
  /\ postalLoaded = FALSE
  /\ highlightedPostalcodes = {}
  /\ importSummary = NoSummary
  /\ pendingUpdates = <<>>
  /\ mergeInserted = 0 - 1
  /\ summaryOfMerge = FALSE

\* The scraper not started.
PoolOff ==
  /\ CONCURRENCY = 0
  /\ tasks = <<>>
  /\ index = 0
  /\ inFlight = 0
  /\ workerPc = <<>>
  /\ workerTask = <<>>
  /\ storeFeatures = <<>>
  /\ taken = <<>>

\* requestOverpass not called.
OverpassOff ==
  /\ endpoint = 0
  /\ attempt = 0
  /\ requests = <<>>
  /\ overpassResult = "off"

\* The pipeline script not started.
PipelineOff ==
  /\ CLIP_MODE = "none"
  /\ axis = "parallel"
  /\ MASK_PATH = ""
  /\ BORDER_MASK_PATH = ""
  /\ GAP_AREA_MAX = [inf |-> TRUE, v |-> 0]
  /\ pc = "off"
  /\ postalData = [hasFeatures |-> FALSE, features |-> <<>>]
  /\ maskPath = ""
  /\ landMask = NoFeature
  /\ clipped = <<>>
  /\ gaps = <<>>
  /\ additions = <<>>
  /\ output = [hasFeatures |-> FALSE, features |-> <<>>]
  /\ dissolved = <<>>
  /\ labels = <<>>
  /\ written = <<>>
  /\ exitCode = 0 - 1
  /\ failure = ""

otherPrograms == <<clientVars, poolVars, overpassVars>>

Modes == {"none", "coast", "border", "gapfill-border"}

GapAreaMaxValues == {Finite(1), Infinity}

\* The features the postal file is drawn from: well-formed polygons west and
\* east of the strip, null, malformed, invalid and degenerate geometries, a
\* feature with no code.
PostalFeatures ==
  { Feature("0150", OkGeom({0})),
    Feature("0150", OkGeom({0, 1})),
    Feature("0150", OkGeom({MaxCell(Cells)})),
    Feature("0150", NullGeom),
    Feature("0150", BadGeom),
    Feature("0150", InvalidGeom({MaxCell(Cells)})),
    Feature("0151", OkGeom({MaxCell(Cells)})),
    Feature("0151", OkGeom({MaxCell(Cells) - 1, MaxCell(Cells)})),
    Feature("0151", OkGeom({1})),
    Feature("0151", NullGeom),
    Feature("0151", DegenerateGeom({MaxCell(Cells)})),
    Feature(NoCode, OkGeom({0})) }

SeqsUpTo(S, n) == UNION {[1 .. k -> S] : k \in 0 .. n}

\* A parsed postal file: a feature collection, or a document with no
\* features member.
PostalDocs ==
  {[hasFeatures |-> TRUE, features |-> fs] : fs \in SeqsUpTo(PostalFeatures, MaxFeatures)}
    \cup {[hasFeatures |-> FALSE, features |-> <<>>]}

\* postalData.features || []
FeaturesOrEmpty(doc) == IF doc.hasFeatures THEN doc.features ELSE <<>>

\* Geometries of the mask files: the whole strip, parts of it, a malformed
\* one, a null one.
MaskGeoms ==
  {OkGeom(Cells), OkGeom({0}), OkGeom({MaxCell(Cells)}), BadGeom, NullGeom}

\* A parsed mask file: a feature collection, one feature or a bare geometry.
\* A bare geometry is an object with a type of its own, so it is never null:
\* a feature's geometry member can be.
MaskDocs ==
  {[type |-> "FeatureCollection", features |-> fs, geometry |-> NoFeature] :
     fs \in SeqsUpTo({Feature(NoCode, g) : g \in MaskGeoms}, MaxMaskFeatures)}
    \cup {[type |-> "Feature", features |-> <<>>, geometry |-> g] : g \in MaskGeoms}
    \cup {[type |-> "Polygon", features |-> <<>>, geometry |-> g] :
             g \in MaskGeoms \ {NullGeom}}

NormalizeMask(mask) ==
  IF mask.type = "FeatureCollection" THEN mask.features
  ELSE IF mask.type = "Feature" THEN <<Feature(NoCode, mask.geometry)>>
  ELSE <<Feature(NoCode, mask.geometry)>>

NoDoc == [hasFeatures |-> FALSE, features |-> <<>>]

Init ==
  /\ CLIP_MODE \in Modes
  /\ MASK_PATH \in {"", "land.geojson"}
  /\ BORDER_MASK_PATH \in {"", "border.geojson"}
  /\ GAP_AREA_MAX \in GapAreaMaxValues
  /\ axis \in Axes
  /\ pc = "boot"
  /\ postalData = NoDoc
  /\ maskPath = ""
  /\ landMask = NoFeature
  /\ clipped = <<>>
  /\ gaps = <<>>
  /\ additions = <<>>
  /\ output = NoDoc
  /\ dissolved = <<>>
  /\ labels = <<>>
  /\ written = <<>>
  /\ exitCode = 0 - 1
  /\ failure = ""
  /\ ClientStart
  /\ PoolOff
  /\ OverpassOff

\* process.exit(1), from the start-up check or from the catch around run().
Abort(why) ==
  /\ pc' = "exited"
  /\ exitCode' = 1
  /\ failure' = why

\* The start-up check.
Startup ==
  /\ pc = "boot"
  /\ IF CLIP_MODE # "none" /\ MASK_PATH = "" /\ BORDER_MASK_PATH = ""
     THEN Abort("Missing mask path")
     ELSE pc' = "loadPostal" /\ UNCHANGED <<exitCode, failure>>
  /\ UNCHANGED <<config, axis, postalData, maskPath, landMask, clipped, gaps, additions,
                 output, dissolved, labels, written>>
  /\ UNCHANGED otherPrograms

\* const postalData = loadGeoJSON(POSTAL_PATH)
LoadPostal ==
  /\ pc = "loadPostal"
  /\ \E doc \in PostalDocs : postalData' = doc
  /\ pc' = "dispatch"
  /\ UNCHANGED <<config, axis, maskPath, landMask, clipped, gaps, additions, output,
                 dissolved, labels, written, exitCode, failure>>
  /\ UNCHANGED otherPrograms

\* readFileSync or JSON.parse throws on the postal file.
LoadPostalFails ==
  /\ pc = "loadPostal"
  /\ Abort("postal file unreadable")
  /\ UNCHANGED <<config, axis, postalData, maskPath, landMask, clipped, gaps, additions,
                 output, dissolved, labels, written>>
  /\ UNCHANGED otherPrograms

\* Without its features of null geometry: not what the none branch does.
OutputNoneFiltered(doc) ==
  [hasFeatures |-> doc.hasFeatures,
   features |-> SelectSeq(doc.features, LAMBDA f : f.geom.kind # "null")]

\* output = postalData
OutputNone(doc) == doc

\* if (CLIP_MODE === 'none') output = postalData
ModeNone ==
  /\ pc = "dispatch"
  /\ CLIP_MODE = "none"
  /\ output' = OutputNone(postalData)
  /\ pc' = "write1"
  /\ UNCHANGED <<config, axis, postalData, maskPath, landMask, clipped, gaps, additions,
                 dissolved, labels, written, exitCode, failure>>
  /\ UNCHANGED otherPrograms

\* The mask path the selected mode uses.
\* Whichever path is configured: not what the modes select.
SelectMaskPathAnyConfigured ==
  IF MASK_PATH # "" THEN MASK_PATH ELSE BORDER_MASK_PATH

\* The land mask preferred in the border modes: not what the modes select.
SelectMaskPathLandFirst ==
  IF CLIP_MODE = "gapfill-border" \/ CLIP_MODE = "border"
  THEN (IF MASK_PATH # "" THEN MASK_PATH ELSE BORDER_MASK_PATH)
  ELSE MASK_PATH

SelectMaskPath ==
  IF CLIP_MODE = "gapfill-border" \/ CLIP_MODE = "border"
  THEN (IF BORDER_MASK_PATH # "" THEN BORDER_MASK_PATH ELSE MASK_PATH)
  ELSE MASK_PATH

\* if (!borderMask), if (!landMask): the unifier returned null.
MaskMissing(mask) == mask.kind = "none"

\* Path selection, loadGeoJSON(maskPath), normalizeMask, unionMask and the
\* check of its result.
LoadMask ==
  /\ pc = "dispatch"
  /\ CLIP_MODE # "none"
  /\ IF SelectMaskPath = ""
     THEN /\ Abort(IF CLIP_MODE = "gapfill-border" THEN "Missing BORDER_MASK_PATH"
                   ELSE "mask file unreadable")
          /\ UNCHANGED <<maskPath, landMask>>
     ELSE \/ /\ maskPath' = SelectMaskPath
             /\ Abort("mask file unreadable")
             /\ UNCHANGED landMask
          \/ \E doc \in MaskDocs :
               LET mask == UnionMask(NormalizeMask(doc))
               IN /\ maskPath' = SelectMaskPath
                  /\ landMask' = mask
                  /\ IF MaskMissing(mask)
                     THEN Abort("Failed to build mask geometry")
                     ELSE pc' = "masked" /\ UNCHANGED <<exitCode, failure>>
  /\ UNCHANGED <<config, axis, postalData, clipped, gaps, additions, output, dissolved,
                 labels, written>>
  /\ UNCHANGED otherPrograms

Collection(features) == [hasFeatures |-> TRUE, features |-> features]

\* The additions put before the features: not what gapfill-border writes.
GapfillOutputAdditionsFirst(features, added) == Collection(added \o features)

\* featureCollection([...(postalData.features || []), ...additions])
GapfillOutput(features, added) == Collection(features \o added)

\* The gapfill-border branch after the mask is built.
GapfillBorder ==
  /\ pc = "masked"
  /\ CLIP_MODE = "gapfill-border"
  /\ LET unionedPostal == UnionMask(FeaturesOrEmpty(postalData))
         found == BuildGapFeatures(landMask, unionedPostal)
         assigned == AssignGapsToNearest(postalData.features, found, GAP_AREA_MAX)
     IN /\ gaps' = found
        /\ IF assigned.threw
           THEN /\ Abort("assignGapsToNearest threw")
                /\ UNCHANGED <<additions, output>>
           ELSE /\ additions' = assigned.value
                /\ output' = GapfillOutput(FeaturesOrEmpty(postalData), assigned.value)
                /\ pc' = "write1"
                /\ UNCHANGED <<exitCode, failure>>
  /\ UNCHANGED <<config, axis, postalData, maskPath, landMask, clipped, dissolved, labels,
                 written>>
  /\ UNCHANGED otherPrograms

\* Gaps filled in every clipping mode: not what the branch does.
FillsGapsAlways(mode) == mode = mode

\* if (CLIP_MODE === 'coast')
FillsGaps(mode) == mode = "coast"

\* The coast and border branch after the mask is built.
ClipModes ==
  /\ pc = "masked"
  /\ CLIP_MODE \in {"coast", "border"}
  /\ LET clip == ClipPostalCodes(FeaturesOrEmpty(postalData), landMask)
     IN IF clip.threw
        THEN /\ Abort("turf.bbox(landMask) threw")
             /\ UNCHANGED <<clipped, gaps, additions, output>>
        ELSE /\ clipped' = clip.value
             /\ IF FillsGaps(CLIP_MODE)
                THEN LET unionedPostal == UnionMask(clip.value)
                         found == BuildGapFeatures(landMask, unionedPostal)
                         assigned == AssignGapsToNearest(clip.value, found, GAP_AREA_MAX)
                     IN /\ gaps' = found
                        /\ IF assigned.threw
                           THEN /\ Abort("assignGapsToNearest threw")
                                /\ UNCHANGED <<additions, output>>
                           ELSE /\ additions' = assigned.value
                                /\ output' = Collection(clip.value \o assigned.value)
                                /\ pc' = "write1"
                                /\ UNCHANGED <<exitCode, failure>>
                ELSE /\ output' = Collection(clip.value)
                     /\ pc' = "write1"
                     /\ UNCHANGED <<gaps, additions, exitCode, failure>>
  /\ UNCHANGED <<config, axis, postalData, maskPath, landMask, dissolved, labels, written>>
  /\ UNCHANGED otherPrograms

\* Output (1) is written, then output.features.length is read for the log.
WriteOutput ==
  /\ pc = "write1"
  /\ written' = Append(written, "clipped")
  /\ IF output.hasFeatures
     THEN pc' = "dissolve" /\ UNCHANGED <<exitCode, failure>>
     ELSE Abort("output.features is undefined")
  /\ UNCHANGED <<config, axis, postalData, maskPath, landMask, clipped, gaps, additions,
                 output, dissolved, labels>>
  /\ UNCHANGED otherPrograms

\* dissolveByPostnummer(output.features), output (2) written.
Dissolve ==
  /\ pc = "dissolve"
  /\ dissolved' = DissolveByPostnummer(output.features)
  /\ written' = Append(written, "dissolved")
  /\ pc' = "labels"
  /\ UNCHANGED <<config, axis, postalData, maskPath, landMask, clipped, gaps, additions,
                 output, labels, exitCode, failure>>
  /\ UNCHANGED otherPrograms

\* buildLabelPoints(dissolved), output (3) written, run() returns.
Labels ==
  /\ pc = "labels"
  /\ labels' = BuildLabelPoints(dissolved)
  /\ written' = Append(written, "labels")
  /\ pc' = "exited"
  /\ exitCode' = 0
  /\ UNCHANGED <<config, axis, postalData, maskPath, landMask, clipped, gaps, additions,
                 output, dissolved, failure>>
  /\ UNCHANGED otherPrograms

Next ==
  \/ Startup
  \/ LoadPostal
  \/ LoadPostalFails
  \/ ModeNone
  \/ LoadMask
  \/ GapfillBorder
  \/ ClipModes
  \/ WriteOutput
  \/ Dissolve
  \/ Labels

Spec == Init /\ [][Next]_vars

\* ------------------------------------------------- the legacy clip script

\* process.exit(1) from the catch around run(), nothing written.
LegacyFailed == [wrote |-> FALSE, output |-> NoDoc]

LegacyWrote(features) == [wrote |-> TRUE, output |-> Collection(features)]

\* unionMask(normalizeMask(maskData).features) of the legacy script, whose
\* two functions are those of the pipeline, word for word.
LegacyMask(maskDoc) == UnionMask(NormalizeMask(maskDoc))

\* The clipped features written without any addition: not what the legacy
\* script writes.
LegacyRunNoGapFill(postalDoc, legacyMask, max) ==
  IF legacyMask.kind = "none" THEN LegacyFailed
  ELSE LET clip == ClipPostalCodes(FeaturesOrEmpty(postalDoc), legacyMask)
       IN IF clip.threw THEN LegacyFailed ELSE LegacyWrote(clip.value)

\* run() of the legacy script from the check of its unified mask on, for a
\* postal document that was read.
LegacyRun(postalDoc, legacyMask, max) ==
  IF legacyMask.kind = "none" THEN LegacyFailed
  ELSE LET clip == ClipPostalCodes(FeaturesOrEmpty(postalDoc), legacyMask)
       IN IF clip.threw THEN LegacyFailed
          ELSE LET unionedPostal == UnionMask(clip.value)
                   found == BuildGapFeatures(legacyMask, unionedPostal)
                   assigned == AssignGapsToNearest(clip.value, found, max)
               IN IF assigned.threw THEN LegacyFailed
                  ELSE LegacyWrote(clip.value \o assigned.value)

\* ------------------------------------------------------------- claims

Completed == pc = "exited" /\ exitCode = 0

Wrote(name) == \E i \in 1 .. Len(written) : written[i] = name

CodeSet(s) == {s[i].code : i \in 1 .. Len(s)}

InputFeatures == FeaturesOrEmpty(postalData)

\* The candidate list handed to assignGapsToNearest.
Candidates == IF CLIP_MODE = "gapfill-border" THEN InputFeatures ELSE clipped

\* C1: in every mode other than none, every code of output (2) and of output
\* (3) is the code of a feature of the input postal collection.
C1_OutputCodesFromInput ==
  CLIP_MODE # "none" =>
    /\ CodeSet(dissolved) \subseteq CodeSet(InputFeatures)
    /\ CodeSet(labels) \subseteq CodeSet(InputFeatures)

\* A completed gap-filling run whose additions reached outputs (2) and (3).
C1_Witness ==
  /\ Completed
  /\ CLIP_MODE \in {"coast", "gapfill-border"}
  /\ additions # <<>>
  /\ \E i \in 1 .. Len(additions) : additions[i].code # NoCode
  /\ dissolved # <<>>
  /\ labels # <<>>

\* C2: once output (2) is written it holds exactly one feature for every
\* distinct non-falsy code of the working set, output (1).
C2_EveryWorkingCodeDissolved ==
  Wrote("dissolved") =>
    \A c \in CodeSet(output.features) \ {NoCode} :
      Cardinality({i \in 1 .. Len(dissolved) : dissolved[i].code = c}) = 1

\* C3: no two features returned by dissolveByPostnummer carry the same code.
C3_DissolvedCodesDistinct ==
  \A i, j \in 1 .. Len(dissolved) : i # j => dissolved[i].code # dissolved[j].code

\* Two codes dissolved from a working set in which a code occurs twice.
C3_Witness ==
  /\ Wrote("dissolved")
  /\ Len(dissolved) = 2
  /\ \E i, j \in 1 .. Len(output.features) :
       i # j /\ output.features[i].code = output.features[j].code
             /\ output.features[i].code # NoCode

\* C4 as claimed: after a completed run the label codes and the dissolved
\* codes are in bijection.
C4_LabelsBijection ==
  Completed =>
    /\ Len(labels) = Len(dissolved)
    /\ \A i \in 1 .. Len(labels) : labels[i].code = dissolved[i].code

\* C4 as amended: every label code is a dissolved code; a dissolved feature
\* has exactly one label when its centroid can be computed and none when its
\* geometry is malformed; in coast and border mode the codes are in bijection.
C4_LabelsOfWellFormed ==
  Completed =>
    /\ CodeSet(labels) \subseteq CodeSet(dissolved)
    /\ \A i \in 1 .. Len(dissolved) :
         Cardinality({k \in 1 .. Len(labels) : labels[k].code = dissolved[i].code})
           = (IF HasRegion(dissolved[i].geom) THEN 1 ELSE 0)
    /\ CLIP_MODE \in {"coast", "border"} =>
         /\ Len(labels) = Len(dissolved)
         /\ \A i \in 1 .. Len(labels) : labels[i].code = dissolved[i].code

\* A completed run with a labelled code and a malformed, unlabelled one.
C4_Witness ==
  /\ Completed
  /\ labels # <<>>
  /\ \E i \in 1 .. Len(dissolved) : dissolved[i].geom.kind = "bad"

\* The scenario of C5: two well-formed features 0150 and 0151 at the two ends
\* of the strip, a gap strip between them, the mask covering everything, coast
\* mode, no area limit, run completed.
C5_Strip == Cells \ (postalData.features[1].geom.cells \cup postalData.features[2].geom.cells)

C5_Scenario ==
  /\ Completed
  /\ CLIP_MODE = "coast"
  /\ GAP_AREA_MAX = Infinity
  /\ landMask = OkGeom(Cells)
  /\ postalData.hasFeatures
  /\ Len(postalData.features) = 2
  /\ {postalData.features[1].code, postalData.features[2].code} = {"0150", "0151"}
  /\ postalData.features[1].geom.kind = "ok"
  /\ postalData.features[2].geom.kind = "ok"
  /\ postalData.features[1].geom.cells \cap postalData.features[2].geom.cells = {}
  /\ IsInterval(C5_Strip)
  /\ MinCell(C5_Strip) > MinCell(Cells)
  /\ MaxCell(C5_Strip) < MaxCell(Cells)

DissolvedCells(c) ==
  LET i == CHOOSE k \in 1 .. Len(dissolved) : dissolved[k].code = c
  IN dissolved[i].geom.cells

\* C5 as claimed: output (2) has 2 features and each code's geometry has grown
\* into the gap strip.
C5_EachCodeGrows ==
  C5_Scenario =>
    /\ Len(dissolved) = 2
    /\ \A i \in 1 .. 2 :
         /\ postalData.features[i].geom.cells \subseteq DissolvedCells(postalData.features[i].code)
         /\ DissolvedCells(postalData.features[i].code) \cap C5_Strip # {}

\* The feature the strip goes to: the second when its centroid is strictly
\* nearer the strip's centroid, the first otherwise.
C5_Winner ==
  LET g == TurfCentroid(OkGeom(C5_Strip)).value
      d1 == TurfDistance(g, TurfCentroid(postalData.features[1].geom).value)
      d2 == TurfDistance(g, TurfCentroid(postalData.features[2].geom).value)
  IN IF d2.num * d1.den < d1.num * d2.den THEN 2 ELSE 1

\* C5 as amended: output (2) has 2 features; the whole strip, one connected
\* gap, is added to the one code whose centroid is nearest the strip's
\* centroid (the first feature on a tie) and the other code is unchanged.
C5_WholeStripToNearest ==
  C5_Scenario =>
    /\ Len(dissolved) = 2
    /\ CodeSet(dissolved) = {"0150", "0151"}
    /\ \A i \in 1 .. 2 :
         DissolvedCells(postalData.features[i].code)
           = (IF i = C5_Winner
              THEN postalData.features[i].geom.cells \cup C5_Strip
              ELSE postalData.features[i].geom.cells)

\* The scenario with a strip two cells wide, both features equally far.
C5_Witness ==
  /\ C5_Scenario
  /\ Cardinality(C5_Strip) = 2
  /\ Len(gaps) = 1
  /\ Len(additions) = 1

\* What the spec names fatal, with the failures of the mask itself.
FatalErrors ==
  {"Missing mask path", "postal file unreadable", "Missing BORDER_MASK_PATH",
   "mask file unreadable", "Failed to build mask geometry",
   "turf.bbox(landMask) threw", "output.features is undefined"}

\* C6: a geometric failure on one postal feature or one gap never aborts the
\* run: a run that exits with status 1 does so for a fatal error only, and a
\* run whose mask and postal collection are well formed writes all outputs.
C6_FeatureFailureNeverAborts ==
  /\ (pc = "exited" /\ exitCode = 1) => failure \in FatalErrors
  /\ (pc = "exited" /\ landMask.kind = "ok" /\ postalData.hasFeatures) =>
       written = <<"clipped", "dissolved", "labels">>

HasNullGeometry(s) == \E i \in 1 .. Len(s) : s[i].geom.kind = "null"

\* C7 as claimed: no feature of a written output has a null geometry, in any
\* mode.
C7_NoNullGeometryWritten ==
  /\ Wrote("clipped") => ~HasNullGeometry(output.features)
  /\ Wrote("dissolved") => ~HasNullGeometry(dissolved)

\* C7 as amended: outputs (2) and (3) never hold a null geometry, and in coast
\* and border mode neither does output (1), whose geometries then all have
\* coordinates; every label is a point.
C7_NoNullGeometryDissolved ==
  /\ ~HasNullGeometry(dissolved)
  /\ \A i \in 1 .. Len(labels) : labels[i].point.den > 0
  /\ (CLIP_MODE \in {"coast", "border"} /\ Wrote("clipped")) =>
       \A i \in 1 .. Len(output.features) : HasRegion(output.features[i].geom)

\* A null geometry in the input leads its code's group, outputs written.
C7_Witness ==
  /\ Completed
  /\ HasNullGeometry(InputFeatures)
  /\ dissolved # <<>>
  /\ \E i \in 1 .. Len(output.features) :
       /\ output.features[i].geom.kind = "null"
       /\ \A j \in 1 .. (i - 1) : output.features[j].code # output.features[i].code

\* C8: no addition is emitted for a gap whose area exceeds GAP_AREA_MAX, and
\* such a gap is left uncovered: no addition of the working set overlaps it.
C8_NoAdditionAboveMax ==
  /\ \A k \in 1 .. Len(additions) :
       GAP_AREA_MAX.inf \/ Cardinality(additions[k].geom.cells) <= GAP_AREA_MAX.v
  /\ \A j \in 1 .. Len(gaps) :
       (~GAP_AREA_MAX.inf /\ Cardinality(gaps[j].cells) > GAP_AREA_MAX.v) =>
         \A k \in 1 .. Len(additions) :
           additions[k].geom.cells \cap gaps[j].cells = {}

\* One gap within the maximum was assigned, one above it was not.
C8_Witness ==
  /\ Wrote("clipped")
  /\ ~GAP_AREA_MAX.inf
  /\ additions # <<>>
  /\ \E j \in 1 .. Len(gaps) : Cardinality(gaps[j].cells) > GAP_AREA_MAX.v

\* The distance from a gap's centroid to candidate i's centroid.
GapDistance(gap, i) ==
  TurfDistance(TurfCentroid(gap).value, TurfCentroid(Candidates[i].geom).value)

NotFarther(d, e) == d.num * e.den <= e.num * d.den

\* Candidate i is at the minimal distance from the gap.
IsNearest(gap, i) ==
  \A j \in 1 .. Len(Candidates) : NotFarther(GapDistance(gap, i), GapDistance(gap, j))

\* C9: every addition carries the code of the earliest candidate among those
\* at the minimal distance from its gap's centroid.
C9_TieGoesToEarliest ==
  \A k \in 1 .. Len(additions) :
    \E i \in 1 .. Len(Candidates) :
      /\ IsNearest(additions[k].geom, i)
      /\ \A j \in 1 .. (i - 1) : ~IsNearest(additions[k].geom, j)
      /\ additions[k].code = Candidates[i].code

\* An addition whose gap has two nearest candidates of different codes.
C9_Witness ==
  \E k \in 1 .. Len(additions) :
    \E i, j \in 1 .. Len(Candidates) :
      /\ i < j
      /\ IsNearest(additions[k].geom, i)
      /\ IsNearest(additions[k].geom, j)
      /\ Candidates[i].code # Candidates[j].code

\* C10: in mode none output (1) is the input collection itself, no mask is
\* loaded and nothing is clipped or gap filled.
C10_NoneIsIdentity ==
  (CLIP_MODE = "none" /\ pc \notin {"boot", "loadPostal", "dispatch"}) =>
    /\ output = postalData
    /\ maskPath = ""
    /\ landMask = NoFeature
    /\ clipped = <<>>
    /\ gaps = <<>>
    /\ additions = <<>>

\* Output (1) written in mode none from an input with a null geometry.
C10_Witness ==
  /\ CLIP_MODE = "none"
  /\ Wrote("clipped")
  /\ Len(output.features) = 2
  /\ HasNullGeometry(output.features)

\* The clipper has run against a well-formed mask.
ClipRan ==
  /\ CLIP_MODE \in {"coast", "border"}
  /\ landMask.kind = "ok"
  /\ pc \notin {"boot", "loadPostal", "dispatch", "masked"}

\* The feature is well formed and overlaps the mask.
OverlapsMask(f) == f.geom.kind = "ok" /\ f.geom.cells \cap landMask.cells # {}

\* The feature's bbox or its intersection with the mask throws.
ClipThrows(f) == f.geom.kind = "bad" \/ f.geom.kind = "invalid"

\* Exactly one input feature makes the clipper throw, the others are well
\* formed and overlap the mask.
C11_Scenario ==
  /\ ClipRan
  /\ CLIP_MODE = "coast"
  /\ \E i \in 1 .. Len(InputFeatures) :
       /\ ClipThrows(InputFeatures[i])
       /\ \A j \in 1 .. Len(InputFeatures) : j # i => OverlapsMask(InputFeatures[j])

\* C11: in coast mode, when exactly one input feature makes bbox or intersect
\* throw and every other feature is well formed and overlaps the mask, the
\* clipper returns one feature fewer than the input and the run does not abort.
C11_OneThrowingFeatureSkipped ==
  C11_Scenario =>
    /\ Len(clipped) = Len(InputFeatures) - 1
    /\ failure = ""
    /\ pc = "exited" => (exitCode = 0 /\ written = <<"clipped", "dissolved", "labels">>)

\* A completed coast run of two features, the second with an intersection
\* that throws.
C11_Witness ==
  /\ C11_Scenario
  /\ Completed
  /\ Len(InputFeatures) = 2
  /\ InputFeatures[2].geom.kind = "invalid"
  /\ Len(clipped) = 1

\* The path the selected mode uses is not configured.
MaskPathNotConfigured ==
  /\ CLIP_MODE # "none"
  /\ IF CLIP_MODE = "coast" THEN MASK_PATH = ""
     ELSE MASK_PATH = "" /\ BORDER_MASK_PATH = ""

\* C12: in a mode other than none, when the mask path of the mode is not
\* configured or its file cannot be read, the run never gets a mask, writes
\* nothing and exits with status 1.
C12_MissingMaskAborts ==
  (MaskPathNotConfigured \/ failure = "mask file unreadable") =>
    /\ pc \in {"boot", "loadPostal", "dispatch", "exited"}
    /\ landMask = NoFeature
    /\ written = <<>>
    /\ pc = "exited" => exitCode = 1

\* A coast run aborted for its missing mask path while the border path is
\* configured.
C12_Witness ==
  /\ CLIP_MODE = "coast"
  /\ MASK_PATH = ""
  /\ BORDER_MASK_PATH # ""
  /\ postalData # NoDoc
  /\ pc = "exited"
  /\ exitCode = 1

\* C13: in coast, border and gapfill-border mode, when the unified mask has no
\* geometry the run exits with status 1 before anything is clipped, gap
\* filled, dissolved or written.
C13_NoMaskGeometryAborts ==
  (CLIP_MODE # "none" /\ maskPath # "" /\ failure # "mask file unreadable"
     /\ (landMask.kind = "none" \/ landMask.kind = "null")) =>
    /\ pc = "exited"
    /\ exitCode = 1
    /\ clipped = <<>> /\ gaps = <<>> /\ additions = <<>> /\ dissolved = <<>>
    /\ written = <<>>

\* C14: dissolve is idempotent: the dissolver applied to output (2), itself
\* the dissolver's result on output (1), returns output (2) again, the same
\* codes with the same regions.
C14_DissolveIdempotent ==
  Wrote("dissolved") =>
    /\ dissolved = DissolveByPostnummer(output.features)
    /\ DissolveByPostnummer(dissolved) = dissolved

\* Output (2) written with one feature merged from two of output (1).
C14_Witness ==
  /\ Wrote("dissolved")
  /\ Len(dissolved) = 1
  /\ Len(output.features) = 2
  /\ output.features[1].geom.kind = "ok"
  /\ output.features[2].geom.kind = "ok"
  /\ dissolved[1].geom.cells # output.features[1].geom.cells
  /\ dissolved[1].geom.cells # output.features[2].geom.cells

\* The gapfill-border branch has built its output.
GapfillRan == CLIP_MODE = "gapfill-border" /\ output.hasFeatures

\* C15: in mode gapfill-border nothing is clipped; output (1) is the input
\* features, unchanged and in input order, followed by the additions; the gaps
\* are the border mask minus the union of the raw features and every addition
\* is a gap carrying the code of a raw input feature.
C15_GapfillKeepsInput ==
  /\ CLIP_MODE = "gapfill-border" => clipped = <<>>
  /\ GapfillRan =>
       /\ Len(output.features) = Len(InputFeatures) + Len(additions)
       /\ SubSeq(output.features, 1, Len(InputFeatures)) = InputFeatures
       /\ SubSeq(output.features, Len(InputFeatures) + 1, Len(output.features))
            = additions
       /\ gaps = BuildGapFeatures(landMask, UnionMask(InputFeatures))
       /\ \A k \in 1 .. Len(additions) :
            /\ \E j \in 1 .. Len(gaps) : additions[k].geom = gaps[j]
            /\ \E i \in 1 .. Len(InputFeatures) :
                 additions[k].code = InputFeatures[i].code

\* Output (1) written in gapfill-border with an addition and an input feature
\* reaching outside the border mask.
C15_Witness ==
  /\ GapfillRan
  /\ Wrote("clipped")
  /\ additions # <<>>
  /\ \E i \in 1 .. Len(InputFeatures) :
       /\ InputFeatures[i].geom.kind = "ok"
       /\ ~(InputFeatures[i].geom.cells \subseteq landMask.cells)

\* C16: in mode border no gap is detected or assigned and output (1) is the
\* clipper's result.
C16_BorderNoGapFill ==
  CLIP_MODE = "border" =>
    /\ gaps = <<>>
    /\ additions = <<>>
    /\ output.hasFeatures => output.features = clipped

\* Output (1) written in border mode while a part of the mask is left
\* uncovered by the clipped features.
C16_Witness ==
  /\ CLIP_MODE = "border"
  /\ Wrote("clipped")
  /\ clipped # <<>>
  /\ \E c \in landMask.cells :
       \A i \in 1 .. Len(clipped) : c \notin clipped[i].geom.cells

\* The cells of the well-formed features of a list.
OkCells(features) ==
  UNION {features[i].geom.cells :
           i \in {j \in 1 .. Len(features) : features[j].geom.kind = "ok"}}

\* C17: when exactly one feature of the list given to unionMask makes every
\* union step fail and the others are well formed, the result is the union
\* of the others, wherever the failing feature stands.
C17_OnlyBadFeatureDropped ==
  (/\ GapfillRan
   /\ Len(InputFeatures) >= 2
   /\ \E i \in 1 .. Len(InputFeatures) :
        /\ InputFeatures[i].geom.kind # "ok"
        /\ \A j \in 1 .. Len(InputFeatures) :
             j # i => InputFeatures[j].geom.kind = "ok") =>
    UnionMask(InputFeatures) = OkGeom(OkCells(InputFeatures))

\* C18: every gap lies inside the mask and overlaps no clipped feature.
C18_GapsAvoidClipped ==
  (ClipRan /\ CLIP_MODE = "coast") =>
    \A j \in 1 .. Len(gaps) :
      /\ gaps[j].cells \subseteq landMask.cells
      /\ \A i \in 1 .. Len(clipped) : gaps[j].cells \cap clipped[i].geom.cells = {}

\* Two regions share a point: cell c is the closed interval from c to c + 1,
\* so neighbouring cells share their common end.
SharesPoint(A, B) ==
  \E a \in A, b \in B : a = b \/ a = b + 1 \/ b = a + 1

\* C19: the bbox prefilter only rejects: every postal feature whose geometry
\* shares a point with the mask passes the rectangle test, and every
\* well-formed feature with a non-empty intersection with the mask is in the
\* clipper's result.
C19_PrefilterRejectOnly ==
  ClipRan =>
    \A i \in 1 .. Len(InputFeatures) :
      LET f == InputFeatures[i]
      IN /\ (HasRegion(f.geom) /\ SharesPoint(f.geom.cells, landMask.cells)) =>
              BboxOverlaps(TurfBbox(f.geom).value, TurfBbox(landMask).value)
         /\ OverlapsMask(f) =>
              \E k \in 1 .. Len(clipped) :
                clipped[k] = Feature(f.code, OkGeom(f.geom.cells \cap landMask.cells))

\* The clipper has run, on a strip along a meridian, on a feature that
\* touches the mask without overlapping it and on one that overlaps it, the
\* boxes of both differing from the mask's in y.
C19_Witness ==
  /\ ClipRan
  /\ axis = "meridian"
  /\ \A i \in 1 .. Len(InputFeatures) :
       TurfBbox(InputFeatures[i].geom).value # TurfBbox(landMask).value
  /\ clipped # <<>>
  /\ \E i \in 1 .. Len(InputFeatures) :
       /\ InputFeatures[i].geom.kind = "ok"
       /\ SharesPoint(InputFeatures[i].geom.cells, landMask.cells)
       /\ InputFeatures[i].geom.cells \cap landMask.cells = {}

\* C20: the clipper's result is a subsequence of its input in input order:
\* a strictly increasing choice of source features gives every clipped
\* feature its source's code and its source's region cut to the mask.
C20_ClippedIsSubsequence ==
  \E src \in [1 .. Len(clipped) -> 1 .. Len(InputFeatures)] :
    /\ \A k, l \in 1 .. Len(clipped) : k < l => src[k] < src[l]
    /\ \A k \in 1 .. Len(clipped) :
         /\ clipped[k].code = InputFeatures[src[k]].code
         /\ clipped[k].geom.cells # {}
         /\ clipped[k].geom.cells = InputFeatures[src[k]].geom.cells \cap landMask.cells

\* Two features of different codes clipped, the first one cut by the mask.
C20_Witness ==
  /\ ClipRan
  /\ Len(clipped) = 2
  /\ clipped[1].code # clipped[2].code
  /\ clipped[1].geom # InputFeatures[1].geom

\* C21: every addition has the geometry of a gap and the code of a candidate
\* whose centroid is at the minimal distance from that gap's centroid; with
\* an empty candidate list no addition is emitted for any gap.
C21_AdditionsFromNearest ==
  /\ \A k \in 1 .. Len(additions) :
       /\ \E j \in 1 .. Len(gaps) : additions[k].geom = gaps[j]
       /\ \E i \in 1 .. Len(Candidates) :
            /\ additions[k].code = Candidates[i].code
            /\ IsNearest(additions[k].geom, i)
  /\ Candidates = <<>> => additions = <<>>
  /\ AssignGapsToNearest(<<>>, gaps, GAP_AREA_MAX) = Return(<<>>)

\* An addition whose nearest candidate is not the first of the list, in a
\* state whose gaps are also assigned against the empty list.
C21_Witness ==
  /\ gaps # <<>>
  /\ Len(Candidates) >= 2
  /\ \E k \in 1 .. Len(additions) :
       /\ ~IsNearest(additions[k].geom, 1)
       /\ additions[k].code # Candidates[1].code

\* The clipper of a coast run has returned.
CoastClipped ==
  /\ CLIP_MODE = "coast"
  /\ pc \notin {"boot", "loadPostal", "dispatch", "masked"}
  /\ (landMask.kind = "ok" \/ landMask.kind = "null")

\* The difference of the gap builder has nothing to subtract, throws, or
\* returns nothing.
NoDifference ==
  LET unionedPostal == UnionMask(clipped)
  IN \/ unionedPostal.kind = "none"
     \/ TurfDifference(landMask, unionedPostal).threw
     \/ TurfDifference(landMask, unionedPostal).value.kind = "none"

\* C22: in coast mode, when the gap builder has no coverage to subtract or its
\* difference throws or returns nothing, the gap list is empty, output (1) is
\* the clipped features with no addition, and the run raises no error.
C22_NoDifferenceNoGaps ==
  (CoastClipped /\ NoDifference) =>
    /\ gaps = <<>>
    /\ additions = <<>>
    /\ output.hasFeatures /\ output.features = clipped
    /\ failure = ""
    /\ pc = "exited" => (exitCode = 0 /\ written = <<"clipped", "dissolved", "labels">>)

\* A completed coast run whose difference threw on the union of its clipped
\* features, the mask not being covered.
C22_Witness ==
  /\ CoastClipped
  /\ Completed
  /\ clipped # <<>>
  /\ TurfDifference(landMask, UnionMask(clipped)).threw
  /\ \E c \in landMask.cells : \A i \in 1 .. Len(clipped) : c \notin clipped[i].geom.cells

\* The index of the first feature of the list with the given code.
FirstIndex(s, c) ==
  CHOOSE i \in 1 .. Len(s) : s[i].code = c /\ \A j \in 1 .. (i - 1) : s[j].code # c

HasCode(f) == f.code # NoCode

\* C23: the dissolved features stand in the order in which their codes first
\* appear in output (1); no dissolved feature lacks a code, and the features
\* of output (1) without a code contribute nothing: the result is the same
\* without them and every dissolved region comes from features of its code.
C23_DissolvedInFirstSeenOrder ==
  Wrote("dissolved") =>
    /\ \A k \in 1 .. Len(dissolved) :
         /\ HasCode(dissolved[k])
         /\ dissolved[k].code \in CodeSet(output.features)
         /\ dissolved[k].geom.cells \subseteq
              UNION {output.features[i].geom.cells :
                       i \in {j \in 1 .. Len(output.features) :
                                output.features[j].code = dissolved[k].code}}
    /\ \A k, l \in 1 .. Len(dissolved) :
         k < l => FirstIndex(output.features, dissolved[k].code)
                    < FirstIndex(output.features, dissolved[l].code)
    /\ dissolved = DissolveByPostnummer(SelectSeq(output.features, HasCode))

\* Output (2) written with code 0151 before code 0150, as first seen.
C23_Witness ==
  /\ Wrote("dissolved")
  /\ Len(dissolved) = 2
  /\ dissolved[1].code = "0151"
  /\ dissolved[2].code = "0150"

\* C24: the outputs are written in the order (1), (2), (3), and a run that
\* exits with a non-zero status has written none of them.
C24_WritesAllOrNothing ==
  /\ written \in {<<>>, <<"clipped">>, <<"clipped", "dissolved">>,
                  <<"clipped", "dissolved", "labels">>}
  /\ (pc = "exited" /\ exitCode # 0) => written = <<>>
  /\ (pc = "exited" /\ exitCode = 0) => written = <<"clipped", "dissolved", "labels">>

\* C25: a mask file is read from NORWAY_MASK_PATH in coast mode and, in border
\* and gapfill-border mode, from BORDER_MASK_PATH when set and from
\* NORWAY_MASK_PATH otherwise; a coast run with only BORDER_MASK_PATH set passes
\* the start-up check and never reads a mask.
C25_MaskSelectedByMode ==
  /\ maskPath # "" =>
       /\ CLIP_MODE = "coast" => maskPath = MASK_PATH
       /\ CLIP_MODE \in {"border", "gapfill-border"} =>
            /\ BORDER_MASK_PATH # "" => maskPath = BORDER_MASK_PATH
            /\ BORDER_MASK_PATH = "" => maskPath = MASK_PATH
  /\ (CLIP_MODE # "none" /\ pc \in {"masked", "write1", "dissolve", "labels"}) =>
       maskPath # ""
  /\ (CLIP_MODE = "coast" /\ MASK_PATH = "" /\ BORDER_MASK_PATH # "") =>
       /\ failure # "Missing mask path"
       /\ maskPath = ""
       /\ landMask = NoFeature

\* A border run that read the border mask while the land mask was configured
\* too.
C25_Witness ==
  /\ CLIP_MODE = "border"
  /\ MASK_PATH # ""
  /\ BORDER_MASK_PATH # ""
  /\ maskPath = BORDER_MASK_PATH
  /\ landMask.kind = "ok"
  /\ Completed

\* A coast run of the pipeline that read its mask file and is past the
\* clipping branch.
CoastBranchDone ==
  /\ CLIP_MODE = "coast"
  /\ maskPath # ""
  /\ failure # "mask file unreadable"
  /\ pc \notin {"boot", "loadPostal", "dispatch", "masked"}

\* The masks the legacy script builds from the mask documents.
LegacyMasks == {LegacyMask(maskDoc) : maskDoc \in MaskDocs}

\* C26: the mask of a coast run is the one the legacy script builds from the
\* same mask document, and for the run's postal document, that mask and the
\* run's GAP_AREA_MAX the legacy script writes its output exactly when the
\* pipeline builds output (1), and the two are the same feature sequence.
C26_LegacyAgreesWithCoast ==
  CoastBranchDone =>
    /\ landMask \in LegacyMasks
    /\ LET legacy == LegacyRun(postalData, landMask, GAP_AREA_MAX)
       IN /\ legacy.wrote <=> output.hasFeatures
          /\ legacy.wrote => legacy.output.features = output.features
          /\ Wrote("clipped") => legacy.wrote

\* Output (1) written in coast mode with a clipped feature and an addition.
C26_Witness ==
  /\ CoastBranchDone
  /\ Wrote("clipped")
  /\ clipped # <<>>
  /\ additions # <<>>
  /\ Len(output.features) = Len(clipped) + Len(additions)
  /\ \E i \in 1 .. Len(InputFeatures) : InputFeatures[i].geom.kind # "ok"

\* ========================================================= the map client
\* Strings are sequences of one-character strings. The committed React state
\* is highlightedPostalcodes; a setState call either runs its updater at
\* once (React computes the state eagerly when the component has no pending
\* work) or queues it for the next render.

\* Longest list of text fields or CSV cells handed to the client.
MaxValues == 2

\* Most updates of highlightedPostalcodes queued between two renders.
MaxPending == 2

IsDigit(ch) == ch \in {"0", "1", "2", "3", "4", "5", "6", "7", "8", "9"}

\* null
NoPostnummer == <<>>

\* The digits returned whatever their number: not what normalizePostnummer
\* does.
NormalizePostnummerAnyLength(value) == SelectSeq(value, IsDigit)

NormalizePostnummer(value) ==
  LET digitsOnly == SelectSeq(value, IsDigit)
  IN IF Len(digitsOnly) # 4 THEN NoPostnummer ELSE digitsOnly

\* String.prototype.trim, for the blank.
RECURSIVE Trim(_)
Trim(value) ==
  IF value = <<>> THEN value
  ELSE IF Head(value) = " " THEN Trim(Tail(value))
  ELSE IF value[Len(value)] = " " THEN Trim(SubSeq(value, 1, Len(value) - 1))
  ELSE value

NonEmpty(value) == value # <<>>

\* The fields of the text box between separators and the cells of a CSV
\* column: codes of the postal data, a padded one, one that no postal
\* feature carries, an empty field.
RawFields ==
  { <<"0", "1", "5", "0">>,
    <<" ", "0", "1", "5", "0">>,
    <<"0", "1", "5", "1">>,
    <<"9", "9", "9", "9">>,
    <<>> }

RawLists == SeqsUpTo(RawFields, MaxValues)

\* The raw postnummer of the features of the postal file the client loads.
PostalSources ==
  { <<>>,
    << <<"0", "1", "5", "0">>, <<"0", "1", "5", "1">> >>,
    << <<"0", "1", "5", "0">>, <<"1", "5", "0">>, <<>> >> }

\* The valid set built from the loaded features.
RECURSIVE ValidSetFrom(_, _)
ValidSetFrom(source, i) ==
  IF i > Len(source) THEN {}
  ELSE LET normalized == NormalizePostnummer(source[i])
       IN (IF normalized # NoPostnummer THEN {normalized} ELSE {})
            \cup ValidSetFrom(source, i + 1)

\* rawValues.forEach of mergePostalCodes.
RECURSIVE MergeScan(_, _, _, _, _, _)
MergeScan(rawValues, validSet, i, uniqueValues, validCodes, invalidCount) ==
  IF i > Len(rawValues)
  THEN [validCodes |-> validCodes, invalidCount |-> invalidCount]
  ELSE LET normalized == NormalizePostnummer(rawValues[i])
       IN IF normalized = NoPostnummer
          THEN MergeScan(rawValues, validSet, i + 1, uniqueValues, validCodes,
                         invalidCount + 1)
          ELSE IF normalized \in uniqueValues
          THEN MergeScan(rawValues, validSet, i + 1, uniqueValues, validCodes,
                         invalidCount)
          ELSE IF normalized \in validSet
          THEN MergeScan(rawValues, validSet, i + 1, uniqueValues \cup {normalized},
                         Append(validCodes, normalized), invalidCount)
          ELSE MergeScan(rawValues, validSet, i + 1, uniqueValues \cup {normalized},
                         validCodes, invalidCount + 1)

Range(s) == {s[i] : i \in 1 .. Len(s)}

\* The updates of highlightedPostalcodes.
MergeUpdate(validCodes) == [kind |-> "merge", codes |-> validCodes]
ToggleUpdate(code) == [kind |-> "toggle", codes |-> <<code>>]
ClearUpdate == [kind |-> "clear", codes |-> <<>>]

\* What one update makes of the previous state.
ApplyUpdate(prev, update) ==
  IF update.kind = "merge" THEN prev \cup Range(update.codes)
  ELSE IF update.kind = "clear" THEN {}
  ELSE IF update.codes[1] \in prev THEN prev \ {update.codes[1]}
  ELSE prev \cup {update.codes[1]}

\* addedCount after the merge updater ran on prev.
AddedBy(prev, update) == Cardinality(Range(update.codes) \ prev)

RECURSIVE ApplyAll(_, _, _)
ApplyAll(prev, queue, i) ==
  IF i > Len(queue) THEN prev
  ELSE ApplyAll(ApplyUpdate(prev, queue[i]), queue, i + 1)

\* What the last merge updater of the queue inserted, before when the queue
\* holds none.
RECURSIVE LastMergeAdded(_, _, _, _)
LastMergeAdded(prev, queue, i, before) ==
  IF i > Len(queue) THEN before
  ELSE LastMergeAdded(ApplyUpdate(prev, queue[i]), queue, i + 1,
                      IF queue[i].kind = "merge" THEN AddedBy(prev, queue[i])
                      ELSE before)

\* The postal file is loaded: the valid set is built, the source added to the
\* map and the click handler registered.
ClientLoadPostal ==
  /\ ~postalLoaded
  /\ \E data \in PostalSources :
       /\ postalSource' = data
       /\ validPostnummerSet' = ValidSetFrom(data, 1)
  /\ postalLoaded' = TRUE
  /\ UNCHANGED <<highlightedPostalcodes, importSummary, pendingUpdates, mergeInserted,
                 summaryOfMerge>>

\* setHighlightedPostalcodes(updater) then setImportSummary of mergePostalCodes:
\* with eager the updater runs inside the setState call, before addedCount is
\* read; otherwise it is queued and addedCount is read as it was initialised.
MergeSetState(validCodes, summary, eager) ==
  LET update == MergeUpdate(validCodes)
  IN IF eager
     THEN /\ pendingUpdates = <<>>
          /\ highlightedPostalcodes' = ApplyUpdate(highlightedPostalcodes, update)
          /\ mergeInserted' = AddedBy(highlightedPostalcodes, update)
          /\ importSummary' = [summary EXCEPT !.added = AddedBy(highlightedPostalcodes, update)]
          /\ UNCHANGED pendingUpdates
     ELSE /\ Len(pendingUpdates) < MaxPending
          /\ pendingUpdates' = Append(pendingUpdates, update)
          /\ mergeInserted' = 0 - 1
          /\ importSummary' = [summary EXCEPT !.added = 0]
          /\ UNCHANGED highlightedPostalcodes

MergePostalCodes(rawValues, source, totalRows) ==
  LET total == IF totalRows # 0 THEN totalRows ELSE Len(rawValues)
      scan == MergeScan(rawValues, validPostnummerSet, 1, {}, <<>>, 0)
  IN /\ IF validPostnummerSet = {}
        THEN /\ importSummary' = [source |-> source, added |-> 0,
                                  invalid |-> Len(rawValues), total |-> total]
             /\ mergeInserted' = 0
             /\ UNCHANGED <<highlightedPostalcodes, pendingUpdates>>
        ELSE \E eager \in BOOLEAN :
               MergeSetState(scan.validCodes,
                             [source |-> source, added |-> 0,
                              invalid |-> scan.invalidCount, total |-> total],
                             eager)
     /\ summaryOfMerge' = TRUE
     /\ UNCHANGED <<validPostnummerSet, postalSource, postalLoaded>>

\* The text is split at its separators into fields, these are trimmed and the
\* empty ones dropped.
TextValues(fields) ==
  SelectSeq([i \in 1 .. Len(fields) |-> Trim(fields[i])], NonEmpty)

TextCalls == {TextValues(fields) : fields \in RawLists}

HandleApplyPostalInput ==
  \E values \in TextCalls : MergePostalCodes(values, "text", 0)

\* A CSV file: its cells in reading order and, between two cells, the
\* separator that follows the first: a comma or a line break.
CsvFiles ==
  UNION {{[cells |-> c, seps |-> s] : s \in [1 .. Len(c) - 1 -> {",", "\n"}]} :
           c \in RawLists}

\* The rows Papa.parse yields with skipEmptyLines: the cells between two line
\* breaks, a line of one empty cell left out. row is the row being read.
RECURSIVE CsvRows(_, _, _)
CsvRows(file, i, row) ==
  IF i > Len(file.cells) THEN <<>>
  ELSE LET read == Append(row, file.cells[i])
           ends == i = Len(file.cells) \/ file.seps[i] = "\n"
       IN IF ~ends THEN CsvRows(file, i + 1, read)
          ELSE IF read = << <<>> >> THEN CsvRows(file, i + 1, <<>>)
          ELSE <<read>> \o CsvRows(file, i + 1, <<>>)

\* row.forEach((cell) => values.push(String(cell))) over the rows.
RECURSIVE AllCells(_)
AllCells(rows) ==
  IF rows = <<>> THEN <<>> ELSE Head(rows) \o AllCells(Tail(rows))

\* row[originalKey] of a data row: undefined, here the empty string, when the
\* row has no such column.
KeyCell(row, column) == IF column <= Len(row) THEN row[column] ELSE <<>>

\* The arguments handleCsvFile passes to mergePostalCodes. With a known
\* header, that of column `column`, the cell of that column is taken from each
\* data row and the empty ones are dropped; without one every cell of every
\* row is taken. The total is the number of rows.
CsvValues(file, header, column) ==
  LET rows == CsvRows(file, 1, <<>>)
      keyed == [i \in 1 .. Len(rows) |-> KeyCell(rows[i], column)]
  IN [values |-> IF header THEN SelectSeq(keyed, NonEmpty) ELSE AllCells(rows),
      total |-> Len(rows)]

CsvCalls ==
  {CsvValues(file, header, column) :
     file \in CsvFiles, header \in BOOLEAN, column \in 1 .. MaxValues}

HandleCsvFile ==
  \E call \in CsvCalls : MergePostalCodes(call.values, "csv", call.total)

\* Papa.parse reports an error.
CsvParseError ==
  /\ importSummary' = [source |-> "csv", added |-> 0, invalid |-> 0, total |-> 0]
  /\ summaryOfMerge' = FALSE
  /\ UNCHANGED <<validPostnummerSet, postalSource, postalLoaded, highlightedPostalcodes,
                 pendingUpdates, mergeInserted>>

\* A click on a feature of the postal fill layer.
MapClick ==
  /\ postalLoaded
  /\ Len(pendingUpdates) < MaxPending
  /\ \E i \in 1 .. Len(postalSource) :
       LET raw == postalSource[i]
           normalized == IF raw # <<>> THEN NormalizePostnummer(raw) ELSE NoPostnummer
       IN /\ normalized # NoPostnummer
          /\ pendingUpdates' = Append(pendingUpdates, ToggleUpdate(normalized))
  /\ UNCHANGED <<validPostnummerSet, postalSource, postalLoaded, highlightedPostalcodes,
                 importSummary, mergeInserted, summaryOfMerge>>

HandleClear ==
  /\ Len(pendingUpdates) < MaxPending
  /\ pendingUpdates' = Append(pendingUpdates, ClearUpdate)
  /\ importSummary' = NoSummary
  /\ summaryOfMerge' = FALSE
  /\ UNCHANGED <<validPostnummerSet, postalSource, postalLoaded, highlightedPostalcodes,
                 mergeInserted>>

\* React renders: the queued updates run in order on the committed state.
Render ==
  /\ pendingUpdates # <<>>
  /\ highlightedPostalcodes' = ApplyAll(highlightedPostalcodes, pendingUpdates, 1)
  /\ mergeInserted' = LastMergeAdded(highlightedPostalcodes, pendingUpdates, 1, mergeInserted)
  /\ pendingUpdates' = <<>>
  /\ UNCHANGED <<validPostnummerSet, postalSource, postalLoaded, importSummary,
                 summaryOfMerge>>

InitClient == ClientStart /\ PipelineOff /\ PoolOff /\ OverpassOff

NextClient ==
  \/ ClientLoadPostal /\ UNCHANGED <<vars, poolVars, overpassVars>>
  \/ HandleApplyPostalInput /\ UNCHANGED <<vars, poolVars, overpassVars>>
  \/ HandleCsvFile /\ UNCHANGED <<vars, poolVars, overpassVars>>
  \/ CsvParseError /\ UNCHANGED <<vars, poolVars, overpassVars>>
  \/ MapClick /\ UNCHANGED <<vars, poolVars, overpassVars>>
  \/ HandleClear /\ UNCHANGED <<vars, poolVars, overpassVars>>
  \/ Render /\ UNCHANGED <<vars, poolVars, overpassVars>>

SpecClient == InitClient /\ [][NextClient]_<<vars, otherPrograms>>

\* C27: whatever text is applied, file imported, feature clicked or clearing
\* done, every highlighted code is a normalized code of four digits and belongs
\* to the valid set, which holds the normalized codes of the loaded features.
C27_HighlightedAreValid ==
  /\ \A code \in highlightedPostalcodes :
       /\ Len(code) = 4
       /\ \A i \in 1 .. Len(code) : IsDigit(code[i])
       /\ NormalizePostnummer(code) = code
       /\ code \in validPostnummerSet
  /\ \A code \in validPostnummerSet :
       /\ Len(code) = 4
       /\ \E i \in 1 .. Len(postalSource) :
            SelectSeq(postalSource[i], IsDigit) = code

\* Two codes highlighted after a CSV import that also held an invalid value,
\* nothing pending.
C27_Witness ==
  /\ Cardinality(highlightedPostalcodes) = 2
  /\ importSummary.source = "csv"
  /\ importSummary.invalid > 0
  /\ pendingUpdates = <<>>

\* C28: once the updater of a merge has run, the added count of the summary
\* that merge set is the number of codes the updater inserted.
C28_AddedCountsInsertions ==
  (summaryOfMerge /\ mergeInserted >= 0) => importSummary.added = mergeInserted

\* ================================================ the scraper's worker pool
\* run() of the store scraper from the creation of the workers on. JavaScript
\* runs one continuation at a time: a worker's step goes from one await to
\* the next.

\* Most store pages to process.
MaxTasks == 2

\* Largest COOP_CONCURRENCY.
MaxConcurrency == 2

\* What the processing of a store page meets: its feature is in the cache,
\* its page is fetched and has coordinates, its page has none, its fetch
\* throws.
TaskKinds == {"cached", "fetched", "nocoords", "fails"}

Min(a, b) == IF a <= b THEN a ELSE b

\* Array.from({ length: Math.min(CONCURRENCY, tasks.length) }, ...)
Workers == 1 .. Min(CONCURRENCY, Len(tasks))

InitPool ==
  /\ CONCURRENCY \in 1 .. MaxConcurrency
  /\ tasks \in SeqsUpTo(TaskKinds, MaxTasks)
  /\ index = 0
  /\ inFlight = 0
  /\ workerPc = [w \in 1 .. Min(CONCURRENCY, Len(tasks)) |-> "loop"]
  /\ workerTask = [w \in 1 .. Min(CONCURRENCY, Len(tasks)) |-> 0]
  /\ storeFeatures = <<>>
  /\ taken = <<>>
  /\ ClientStart
  /\ OverpassOff
  /\ PipelineOff

\* The worker gives up after a failed task: not what the catch does.
PcAfterFailureStops == "done"

\* catch and finally of processNext return normally: the worker loops on.
PcAfterFailure == "loop"

\* while (index < tasks.length) await processNext(): the worker takes the
\* next task; a cached feature is pushed without any await.
WorkerTakes(w) ==
  /\ workerPc[w] = "loop"
  /\ index < Len(tasks)
  /\ index' = index + 1
  /\ taken' = Append(taken, <<index + 1, w>>)
  /\ IF tasks[index + 1] = "cached"
     THEN /\ storeFeatures' = Append(storeFeatures, index + 1)
          /\ UNCHANGED <<inFlight, workerPc, workerTask>>
     ELSE /\ inFlight' = inFlight + 1
          /\ workerPc' = [workerPc EXCEPT ![w] = "fetch"]
          /\ workerTask' = [workerTask EXCEPT ![w] = index + 1]
          /\ UNCHANGED storeFeatures
  /\ UNCHANGED <<CONCURRENCY, tasks>>

\* The loop condition fails: the worker's promise resolves.
WorkerExits(w) ==
  /\ workerPc[w] = "loop"
  /\ index >= Len(tasks)
  /\ workerPc' = [workerPc EXCEPT ![w] = "done"]
  /\ UNCHANGED <<CONCURRENCY, tasks, index, inFlight, workerTask, storeFeatures, taken>>

\* fetchHtml resolves: the feature is pushed when the page has coordinates,
\* the cache is saved and the worker sleeps.
FetchResolves(w) ==
  /\ workerPc[w] = "fetch"
  /\ tasks[workerTask[w]] # "fails"
  /\ storeFeatures' = IF tasks[workerTask[w]] = "fetched"
                      THEN Append(storeFeatures, workerTask[w])
                      ELSE storeFeatures
  /\ workerPc' = [workerPc EXCEPT ![w] = "sleep"]
  /\ UNCHANGED <<CONCURRENCY, tasks, index, inFlight, workerTask, taken>>

\* fetchHtml throws: catch warns, finally decrements inFlight.
FetchRejects(w) ==
  /\ workerPc[w] = "fetch"
  /\ tasks[workerTask[w]] = "fails"
  /\ inFlight' = inFlight - 1
  /\ workerPc' = [workerPc EXCEPT ![w] = PcAfterFailure]
  /\ workerTask' = [workerTask EXCEPT ![w] = 0]
  /\ UNCHANGED <<CONCURRENCY, tasks, index, storeFeatures, taken>>

\* sleep(REQUEST_DELAY_MS) is over: finally decrements inFlight.
SleepEnds(w) ==
  /\ workerPc[w] = "sleep"
  /\ inFlight' = inFlight - 1
  /\ workerPc' = [workerPc EXCEPT ![w] = "loop"]
  /\ workerTask' = [workerTask EXCEPT ![w] = 0]
  /\ UNCHANGED <<CONCURRENCY, tasks, index, storeFeatures, taken>>

NextPool ==
  \/ \E w \in Workers : WorkerTakes(w) /\ UNCHANGED <<vars, clientVars, overpassVars>>
  \/ \E w \in Workers : WorkerExits(w) /\ UNCHANGED <<vars, clientVars, overpassVars>>
  \/ \E w \in Workers : FetchResolves(w) /\ UNCHANGED <<vars, clientVars, overpassVars>>
  \/ \E w \in Workers : FetchRejects(w) /\ UNCHANGED <<vars, clientVars, overpassVars>>
  \/ \E w \in Workers : SleepEnds(w) /\ UNCHANGED <<vars, clientVars, overpassVars>>

SpecPool == InitPool /\ [][NextPool]_<<vars, otherPrograms>>

\* Every fetch and every sleep settles and the event loop runs the
\* continuation that is ready.
SpecPoolFair == SpecPool /\ WF_<<vars, otherPrograms>>(NextPool)

AllDone == \A w \in Workers : workerPc[w] = "done"

AllTaken == index = Len(tasks)

\* The tasks 1 .. index were each taken once, in order, by one worker each;
\* no feature is pushed twice; the tasks in flight are those the workers hold
\* and never more than CONCURRENCY; when all workers are done every task was
\* taken and every task but the failed ones and those without coordinates
\* has its feature.
PoolSafe ==
  /\ Len(taken) = index
  /\ index <= Len(tasks)
  /\ \A k \in 1 .. Len(taken) : taken[k][1] = k /\ taken[k][2] \in Workers
  /\ \A t \in 1 .. Len(tasks) :
       /\ Cardinality({k \in 1 .. Len(taken) : taken[k][1] = t}) <= 1
       /\ Cardinality({k \in 1 .. Len(storeFeatures) : storeFeatures[k] = t}) <= 1
  /\ \A w, x \in Workers :
       (w # x /\ workerTask[w] # 0) => workerTask[w] # workerTask[x]
  /\ inFlight = Cardinality({w \in Workers : workerPc[w] \in {"fetch", "sleep"}})
  /\ inFlight <= CONCURRENCY
  /\ AllDone =>
       /\ AllTaken
       /\ inFlight = 0
       /\ Range(storeFeatures) = {t \in 1 .. Len(tasks) : tasks[t] \in {"cached", "fetched"}}

\* C29: under every interleaving of the workers, each task is taken by one
\* worker and processed once, at most CONCURRENCY tasks are in flight, a
\* failed task stops nothing, and once every task is taken all workers
\* terminate.
C29_PoolProcessesEachOnce == [] PoolSafe /\ (AllTaken ~> AllDone)

\* Two workers done after a task whose fetch failed and a later task whose
\* feature was pushed, each taken by another worker.
C29_Witness ==
  /\ Cardinality(Workers) = 2
  /\ AllDone
  /\ tasks[1] = "fails"
  /\ tasks[2] = "fetched"
  /\ storeFeatures = <<2>>
  /\ taken[1][2] # taken[2][2]

\* ========================================================= requestOverpass

\* OVERPASS_ENDPOINTS.length
EndpointCount == 4

\* attempt <= 2
MaxAttempts == 2

\* How a request fails: fetch rejects or is aborted by the timeout, the
\* response is not ok, response.json() throws.
RequestFailures == {"fetch threw", "not ok", "json threw"}

InitOverpass ==
  /\ endpoint = 1
  /\ attempt = 1
  /\ requests = <<>>
  /\ overpassResult = "running"
  /\ ClientStart
  /\ PoolOff
  /\ PipelineOff

\* One attempt too few: not what the inner loop allows.
AttemptsLeftOneFewer(a) == a + 1 < MaxAttempts

\* attempt += 1; attempt <= 2
AttemptsLeft(a) == a < MaxAttempts

\* The response is ok and its JSON parses: the function returns it.
RequestSucceeds ==
  /\ overpassResult = "running"
  /\ requests' = Append(requests, [endpoint |-> endpoint, attempt |-> attempt,
                                   outcome |-> "ok"])
  /\ overpassResult' = "returned"
  /\ UNCHANGED <<endpoint, attempt>>

\* The request fails and is caught: next attempt, next endpoint, or the
\* final throw.
RequestFails ==
  /\ overpassResult = "running"
  /\ \E why \in RequestFailures :
       requests' = Append(requests, [endpoint |-> endpoint, attempt |-> attempt,
                                     outcome |-> why])
  /\ IF AttemptsLeft(attempt)
     THEN attempt' = attempt + 1 /\ UNCHANGED <<endpoint, overpassResult>>
     ELSE IF endpoint < EndpointCount
     THEN endpoint' = endpoint + 1 /\ attempt' = 1 /\ UNCHANGED overpassResult
     ELSE overpassResult' = "threw" /\ UNCHANGED <<endpoint, attempt>>

NextOverpass ==
  \/ RequestSucceeds /\ UNCHANGED <<vars, clientVars, poolVars>>
  \/ RequestFails /\ UNCHANGED <<vars, clientVars, poolVars>>

SpecOverpass == InitOverpass /\ [][NextOverpass]_<<vars, otherPrograms>>

\* The k-th request goes to endpoint (k - 1) \div 2 + 1 as attempt
\* (k - 1) % 2 + 1: an endpoint is tried after every earlier one failed twice;
\* only the last request can have succeeded; the function returns exactly
\* when it has, and throws exactly when all 8 requests have failed.
OverpassInOrder ==
  /\ Len(requests) <= 8
  /\ \A k \in 1 .. Len(requests) :
       /\ requests[k].endpoint = ((k - 1) \div 2) + 1
       /\ requests[k].attempt = ((k - 1) % 2) + 1
       /\ k < Len(requests) => requests[k].outcome # "ok"
  /\ overpassResult = "returned" <=>
       (requests # <<>> /\ requests[Len(requests)].outcome = "ok")
  /\ overpassResult = "threw" <=>
       (Len(requests) = 8 /\ \A k \in 1 .. 8 : requests[k].outcome # "ok")

\* C30: the endpoints are tried in list order with two attempts each, the
\* first successful response ends the calls, and the function fails only
\* after all endpoints have failed twice, 8 requests at most; no request is
\* made once the function has returned or thrown.
C30_EndpointsInOrderTwice ==
  /\ [] OverpassInOrder
  /\ [][overpassResult # "running" => UNCHANGED requests]_<<vars, otherPrograms>>

\* The second endpoint answered at its second attempt after three failures.
C30_Witness ==
  /\ overpassResult = "returned"
  /\ Len(requests) = 4
  /\ requests[4].endpoint = 2
  /\ requests[4].attempt = 2

====
